---- MODULE Spec2Model ----
(***************************************************************************)
(* A model of main.py: the Redis-backed session/mode state machine, the    *)
(* AI provider chain with its response cache, the coin lookup, and the     *)
(* instance lock taken in main().                                          *)
(*                                                                         *)
(* Strings the code inspects character by character (message texts, coin   *)
(* symbols and ids) are sequences of one-character strings; strings the    *)
(* code only passes around (provider answers, reply texts) are TLA+        *)
(* strings.  Redis keys are modelled by one variable per key family.       *)
(* Time is abstract: a key that carries a TTL may expire at any moment.    *)
(***************************************************************************)
EXTENDS Naturals, Sequences, FiniteSets

VARIABLES
    mode,        \* user:{id}:mode          [Users -> store entry]
    menu_pref,   \* user:{id}:menu_pref     [Users -> store entry]
    ai_cache,    \* ai:{user}:{query[:50]}  the keys present -> store entry
    coins_list,  \* coins:list              store entry
    inflight,    \* handle_message coroutines suspended before the mode delete
    shot,        \* history: how each user's last text message ended, since
                 \* the user's last menu selection
    last,        \* history: what the handler that ran last did
    lock,        \* bot:instance:lock       store entry, with its setter
    pc,          \* where each bot process is in main()
    acq,         \* history: what each process's setnx gave
    polled,      \* history: the processes that entered run_polling
    lock_log,    \* history: the last operation that changed the lock key
    last_acq     \* history: the last setnx that got an answer from the store

dialogVars == <<mode, menu_pref, ai_cache, coins_list, inflight, shot, last>>
lockVars == <<lock, pc, acq, polled, lock_log, last_acq>>
vars == <<mode, menu_pref, ai_cache, coins_list, inflight, shot, last,
          lock, pc, acq, polled, lock_log, last_acq>>

(***************************************************************************)
(* Bounds of the model.                                                    *)
(***************************************************************************)
\* handle_message coroutines of one user that may be suspended at once
MaxInflight == 1

(***************************************************************************)
(* Values.                                                                 *)
(***************************************************************************)
Nil == "<nil>"                       \* an absent key, Python's None
Users == {"u1", "u2"}
\* the users whose handlers Spec runs (SpecAi runs the chain for all Users)
DialogUsers == {"u1"}
Procs == {"p1", "p2", "p3"}

\* query[:50]
AI_KEY_PREFIX == 50
\* r.setex(..., 3600, deepseek)
AI_CACHE_TTL == 3600
\* COINS_CACHE_TTL
COINS_CACHE_TTL == 3600
\* r.expire("bot:instance:lock", 10)
LOCK_TTL == 10

Min(a, b) == IF a < b THEN a ELSE b

\* s[:n]
Take(s, n) == SubSeq(s, 1, Min(n, Len(s)))

IsSpace(c) == c = " "

\* str.strip(): drop leading and trailing whitespace
RECURSIVE LStrip(_)
LStrip(s) ==
    IF s # <<>> /\ IsSpace(Head(s)) THEN LStrip(Tail(s)) ELSE s

RECURSIVE RStrip(_)
RStrip(s) ==
    IF s # <<>> /\ IsSpace(s[Len(s)]) THEN RStrip(SubSeq(s, 1, Len(s) - 1)) ELSE s

Strip(s) == RStrip(LStrip(s))

LowerChar(c) ==
    CASE c = "B" -> "b"
      [] c = "T" -> "t"
      [] c = "C" -> "c"
      [] c = "E" -> "e"
      [] c = "H" -> "h"
      [] OTHER -> c

\* str.lower()
Lower(s) == [i \in DOMAIN s |-> LowerChar(s[i])]

\* Python truthiness of a string (or None) read from the store or returned by
\* a provider
Truthy(v) == v # Nil /\ v # ""

(***************************************************************************)
(* Message texts.  LongA and LongB are 51 characters long and agree on     *)
(* their first 50; Btc carries a trailing blank that strip() removes.      *)
(***************************************************************************)
LongA == [i \in 1..(AI_KEY_PREFIX + 1) |-> IF i <= AI_KEY_PREFIX THEN "q" ELSE "a"]
LongB == [i \in 1..(AI_KEY_PREFIX + 1) |-> IF i <= AI_KEY_PREFIX THEN "q" ELSE "b"]
Btc == <<"B", "T", "C", " ">>
Texts == {Btc, LongA, LongB}

\* the key built without the user id
MutAiKey(user_id, query) == <<"", Take(query, AI_KEY_PREFIX)>>

\* the key f"ai:{user_id}:{query[:50]}"
AiKey(user_id, query) == <<user_id, Take(query, AI_KEY_PREFIX)>>

(***************************************************************************)
(* The store.  An entry is [present, value, ttl]; ttl 0 is a key without   *)
(* expiry.  A command that raises (redis.RedisError: the store is          *)
(* unavailable) is an input of the action that issues it.                  *)
(***************************************************************************)
Absent == [present |-> FALSE, value |-> Nil, ttl |-> 0]

\* r.set(key, value): unconditional write, no expiry
RedisSet(value) == [present |-> TRUE, value |-> value, ttl |-> 0]

\* r.setex(key, ttl, value)
RedisSetex(ttl, value) == [present |-> TRUE, value |-> value, ttl |-> ttl]

\* r.get(key) of a string key: the value, or None
RedisGet(entry) == IF entry.present THEN entry.value ELSE Nil

\* A key family whose keys are open-ended (the AI cache) is a map from the
\* keys present to their entries.
NoKeys == [k \in {} |-> Absent]
MapGet(m, k) == IF k \in DOMAIN m THEN m[k] ELSE Absent
MapPut(m, k, entry) == [x \in DOMAIN m \cup {k} |-> IF x = k THEN entry ELSE m[x]]
MapDel(m, k) == [x \in DOMAIN m \ {k} |-> m[x]]

(***************************************************************************)
(* AIManager.get_ai_response.  prim and sec are what _query_deepseek and   *)
(* _query_chatgpt do when called: "raise" (timeout, network error,         *)
(* raise_for_status, malformed payload), "" (an empty content) or an       *)
(* answer.                                                                 *)
(***************************************************************************)
FALLBACK == "I couldn't generate a response right now. Please try again later."
PrimaryOutcomes == {"raise", "", "d1"}
SecondaryOutcomes == {"raise", "", "c1"}

\* what the store and the providers do during one call: every combination
AiEnvs ==
    [rdOk : BOOLEAN, prim : PrimaryOutcomes, wrOk : BOOLEAN,
     sec : SecondaryOutcomes]

\* an empty answer taken for an answer
MutAnswered(outcome) == outcome # "raise"

\* the provider's return value reaches the caller's `if`: an exception does not
Answered(outcome) == outcome # "raise" /\ Truthy(outcome)

\* the answer stored with r.set, without expiry
MutAiPrimaryBranch(cache, key, prim, wrOk) ==
    [result |-> prim,
     cache  |-> IF wrOk THEN MapPut(cache, key, RedisSet(prim)) ELSE cache,
     calls  |-> <<"deepseek">>]

\* lines 129-139: the primary provider answered
AiPrimaryBranch(cache, key, prim, wrOk) ==
    [result |-> prim,
     cache  |-> IF wrOk
                THEN MapPut(cache, key, RedisSetex(AI_CACHE_TTL, prim))
                ELSE cache,
     calls  |-> <<"deepseek">>]

\* lines 141-147: the secondary provider answered
AiSecondaryBranch(cache, key, sec, wrOk) ==
    [result |-> sec, cache |-> cache, calls |-> <<"deepseek", "chatgpt">>]

\* the secondary provider's exception let through
MutAiFallbackBranch(cache) ==
    [result |-> "raise", cache |-> cache, calls |-> <<"deepseek", "chatgpt">>]

\* line 150
AiFallbackBranch(cache) ==
    [result |-> FALLBACK, cache |-> cache, calls |-> <<"deepseek", "chatgpt">>]

\* the cached answer never used
MutAiCacheLookup(cache, key, rdOk) == Nil

\* lines 122-127: the cached answer, when the read succeeds and finds one
AiCacheLookup(cache, key, rdOk) ==
    IF rdOk THEN RedisGet(MapGet(cache, key)) ELSE Nil

GetAiResponse(cache, user_id, query, rdOk, prim, wrOk, sec) ==
    LET key    == AiKey(user_id, query)
        cached == AiCacheLookup(cache, key, rdOk)
    IN  IF Truthy(cached)
        THEN [result |-> cached, cache |-> cache, calls |-> <<>>]
        ELSE IF Answered(prim)
        THEN AiPrimaryBranch(cache, key, prim, wrOk)
        ELSE IF Answered(sec)
        THEN AiSecondaryBranch(cache, key, sec, wrOk)
        ELSE AiFallbackBranch(cache)

(***************************************************************************)
(* CryptoManager.  A listing is a sequence of [id, symbol]; json.dumps     *)
(* wraps it into the text the store keeps and json.loads unwraps it.       *)
(***************************************************************************)
BitcoinId == <<"b", "t", "c", "o", "i", "n">>
BatcatId == <<"b", "a", "t">>
Listing1 == << [id |-> BatcatId, symbol |-> <<"b", "t", "c">>],
               [id |-> BitcoinId, symbol |-> <<"B", "T", "C">>] >>
\* an entry whose id is another entry's symbol, ahead of that entry
Listing2 == << [id |-> <<"b", "t", "c">>, symbol |-> <<"x">>],
               [id |-> BitcoinId, symbol |-> <<"B", "T", "C">>] >>
\* an entry with an empty id, ahead of an entry with the same symbol
Listing3 == << [id |-> <<>>, symbol |-> <<"e", "t", "h">>],
               [id |-> <<"e", "t", "h", "e", "r">>, symbol |-> <<"E", "T", "H">>] >>
Listings == {<<>>, Listing1, Listing2, Listing3}
\* the inputs get_coin_data is called with on its own
CoinSymbols ==
    {<<"B", "T", "C">>, <<"b", "t", "c">>, <<"E", "T", "H">>, <<"x">>,
     <<"B", "T", "c", "o", "i", "n">>, <<"z">>}

JsonDumps(listings) == <<"json", listings>>
JsonLoads(text) == text[2]

\* GET /coins/list: 200 with a body, another status, or an exception
ListFetches ==
    {[kind |-> "ok", body |-> l] : l \in Listings}
        \cup {[kind |-> "status", body |-> <<>>], [kind |-> "raise", body |-> <<>>]}

CoinsAbsent == [present |-> FALSE, value |-> <<>>, ttl |-> 0]

\* get_coins_list: [some, listings] (some = FALSE is None) and the store after
GetCoinsList(cache, rdOk, fetch, wrOk) ==
    IF rdOk /\ cache.present /\ cache.value # <<>>
    THEN [some |-> TRUE, listings |-> JsonLoads(cache.value), cache |-> cache]
    ELSE IF fetch.kind = "ok"
    THEN [some |-> TRUE, listings |-> fetch.body,
          cache |-> IF wrOk
                    THEN RedisSetex(COINS_CACHE_TTL, JsonDumps(fetch.body))
                    ELSE cache]
    ELSE [some |-> FALSE, listings |-> <<>>, cache |-> cache]

\* the comparison made without lower()
MutCoinMatches(coin, coin_symbol) ==
    \/ coin_symbol = coin.symbol
    \/ coin_symbol = coin.id

\* line 93
CoinMatches(coin, coin_symbol) ==
    \/ Lower(coin_symbol) = Lower(coin.symbol)
    \/ Lower(coin_symbol) = Lower(coin.id)

\* lines 91-95: the id of the first matching entry from position i on, <<>>
\* when there is none
RECURSIVE ScanListings(_, _, _)
ScanListings(listings, coin_symbol, i) ==
    IF i > Len(listings) THEN <<>>
    ELSE IF CoinMatches(listings[i], coin_symbol) THEN listings[i].id
    ELSE ScanListings(listings, coin_symbol, i + 1)

\* GET /coins/{id}: 200 with every field well formed; 200 with a field missing
\* or a body that is no JSON (KeyError, ValueError inside the try); 200 with
\* the fields present and a price that is null; 429; another status; an
\* exception of requests
QuoteOutcomes == {"full", "missing", "null_price", "429", "status", "raise"}

\* what the store and CoinGecko do during one lookup
CoinEnvs ==
    [rdOk : BOOLEAN, fetch : ListFetches, wrOk : BOOLEAN, quote : QuoteOutcomes]

\* get_coin_data: kind "data" (a dict), "rate_limit" or "none" (None); id is
\* the coin id of the quote request of lines 100-101, <<>> when none is made
GetCoinData(cache, coin_symbol, rdOk, fetch, wrOk, quote) ==
    LET got     == GetCoinsList(cache, rdOk, fetch, wrOk)
        coin_id == ScanListings(got.listings, coin_symbol, 1)
        none    == [kind |-> "none", id |-> <<>>, renders |-> FALSE,
                    cache |-> got.cache]
    IN  IF ~got.some \/ got.listings = <<>> THEN none
        ELSE IF coin_id = <<>> THEN none
        ELSE IF quote \in {"full", "null_price"}
        THEN [kind |-> "data", id |-> coin_id, renders |-> quote = "full",
              cache |-> got.cache]
        ELSE IF quote = "429"
        THEN [kind |-> "rate_limit", id |-> coin_id, renders |-> FALSE,
              cache |-> got.cache]
        ELSE [none EXCEPT !.id = coin_id]

(***************************************************************************)
(* History records.                                                        *)
(***************************************************************************)
\* The environments Spec draws for the coin lookups inside its handlers:
\* every quote outcome, with the store answering and the listing fetched or
\* refused.
DialogCoinEnvs ==
    {e \in CoinEnvs : /\ e.rdOk /\ e.wrOk
                      /\ e.fetch \in {[kind |-> "ok", body |-> Listing1],
                                      [kind |-> "raise", body |-> <<>>]}}

\* no handler has run since the last one was observed
NoOp ==
    [op |-> "none", user |-> Nil, text |-> <<>>, mode_read |-> Nil,
     route |-> Nil, reply |-> Nil, body |-> Nil, delivered |-> FALSE,
     lookup |-> FALSE, read |-> Nil, prim |-> Nil, sec |-> Nil,
     write |-> Nil, calls |-> <<>>, cache_before |-> NoKeys, prior |-> Nil,
     env |-> [rdOk |-> TRUE, prim |-> Nil, wrOk |-> TRUE, sec |-> Nil],
     kind |-> Nil, coin_id |-> <<>>, coins_before |-> CoinsAbsent,
     cenv |-> [rdOk |-> TRUE, fetch |-> [kind |-> "raise", body |-> <<>>],
               wrOk |-> TRUE, quote |-> Nil],
     mode_before |-> Absent, pref_before |-> Absent, rdM |-> TRUE]

Styles == {"grid", "list", "hybrid"}
\* the keys of POPULAR_COINS the model's buttons carry
PopularSymbols == {<<"B", "T", "C">>, <<"E", "T", "H">>}

(***************************************************************************)
(* start: /start writes the menu preference and shows the main menu.       *)
(***************************************************************************)
\* /start taken for a reset of the session: the mode deleted with it
MutStart(u, wrOk) ==
    /\ last.op = "none"
    /\ menu_pref' = IF wrOk THEN [menu_pref EXCEPT ![u] = RedisSet("grid")]
                    ELSE menu_pref
    /\ mode' = IF wrOk THEN [mode EXCEPT ![u] = Absent] ELSE mode
    /\ last' = [NoOp EXCEPT !.op = "start", !.user = u, !.prior = shot[u],
                            !.mode_before = mode[u],
                            !.pref_before = menu_pref[u]]
    /\ UNCHANGED <<ai_cache, coins_list, inflight, shot>>

Start(u, wrOk) ==
    /\ last.op = "none"
    /\ menu_pref' = IF wrOk THEN [menu_pref EXCEPT ![u] = RedisSet("grid")]
                    ELSE menu_pref
    /\ last' = [NoOp EXCEPT !.op = "start", !.user = u, !.prior = shot[u],
                            !.mode_before = mode[u],
                            !.pref_before = menu_pref[u]]
    /\ UNCHANGED <<mode, ai_cache, coins_list, inflight, shot>>

(***************************************************************************)
(* handle_crypto, handle_ai: the menu selection writes the mode.           *)
(***************************************************************************)
SetMode(u, value, wrOk) ==
    IF wrOk THEN [mode EXCEPT ![u] = RedisSet(value)] ELSE mode

HandleCrypto(u, wrOk) ==
    /\ last.op = "none"
    /\ mode' = SetMode(u, "crypto", wrOk)
    /\ shot' = [shot EXCEPT ![u] = "none"]
    /\ last' = [NoOp EXCEPT !.op = "select", !.user = u, !.route = "crypto",
                            !.prior = shot[u],
                            !.mode_before = mode[u],
                            !.pref_before = menu_pref[u]]
    /\ UNCHANGED <<menu_pref, ai_cache, coins_list, inflight>>

HandleAi(u, wrOk) ==
    /\ last.op = "none"
    /\ mode' = SetMode(u, "ai", wrOk)
    /\ shot' = [shot EXCEPT ![u] = "none"]
    /\ last' = [NoOp EXCEPT !.op = "select", !.user = u, !.route = "ai",
                            !.prior = shot[u],
                            !.mode_before = mode[u],
                            !.pref_before = menu_pref[u]]
    /\ UNCHANGED <<menu_pref, ai_cache, coins_list, inflight>>

(***************************************************************************)
(* button_handler, the other buttons.                                      *)
(***************************************************************************)
\* main_menu, popular_coins, settings: a screen is shown, nothing is written
ShowScreen(u, data) ==
    /\ last.op = "none"
    /\ data \in {"main_menu", "popular_coins", "settings"}
    /\ last' = [NoOp EXCEPT !.op = "button", !.user = u, !.route = data,
                            !.prior = shot[u],
                            !.mode_before = mode[u],
                            !.pref_before = menu_pref[u]]
    /\ UNCHANGED <<mode, menu_pref, ai_cache, coins_list, inflight, shot>>

\* menu_<style>
MenuStyle(u, style, wrOk) ==
    /\ last.op = "none"
    /\ menu_pref' = IF wrOk THEN [menu_pref EXCEPT ![u] = RedisSet(style)]
                    ELSE menu_pref
    /\ last' = [NoOp EXCEPT !.op = "button", !.user = u, !.route = "menu",
                            !.prior = shot[u],
                            !.mode_before = mode[u],
                            !.pref_before = menu_pref[u]]
    /\ UNCHANGED <<mode, ai_cache, coins_list, inflight, shot>>

\* coin_<symbol>
CoinButton(u, symbol, env) ==
    LET cd == GetCoinData(coins_list, symbol, env.rdOk, env.fetch, env.wrOk,
                          env.quote)
    IN  /\ last.op = "none"
        /\ coins_list' = cd.cache
        /\ last' = [NoOp EXCEPT !.op = "button", !.user = u, !.route = "coin",
                                !.text = symbol, !.lookup = TRUE,
                                !.reply = IF cd.kind = "data" THEN "quote"
                                          ELSE "could_not_fetch",
                                !.kind = cd.kind, !.coin_id = cd.id,
                                !.coins_before = coins_list, !.cenv = env,
                                !.prior = shot[u],
                                !.mode_before = mode[u],
                                !.pref_before = menu_pref[u]]
        /\ UNCHANGED <<mode, menu_pref, ai_cache, inflight, shot>>

(***************************************************************************)
(* handle_message.  The coroutine runs without suspension up to its first  *)
(* reply; in crypto mode it is then suspended (HandleMessage) and resumes  *)
(* with the mode delete (HandleMessageClear).  A reply that raises ends    *)
(* the handler where it stands.                                            *)
(***************************************************************************)
\* the exception of the read swallowed and the stored mode used
MutReadMode(u, rdOk) == RedisGet(mode[u])

\* lines 295-299
ReadMode(u, rdOk) == IF rdOk THEN RedisGet(mode[u]) ELSE Nil

\* the rate-limited outcome not told from None
MutCryptoReply(cd, send1) ==
    IF cd.kind = "data"
    THEN IF cd.renders /\ send1 THEN "quote" ELSE "format_error"
    ELSE "not_found"

\* lines 304-321: the reply of the crypto branch
CryptoReply(cd, send1) ==
    IF cd.kind = "rate_limit" THEN "rate_limit"
    ELSE IF cd.kind = "data"
    THEN IF cd.renders /\ send1 THEN "quote" ELSE "format_error"
    ELSE "not_found"

\* whether the branch's last reply went out: the quote's reply is retried
\* once, as the error text, by the except of line 315
CryptoDelivered(cd, send1, send2) ==
    IF cd.kind = "data" THEN (cd.renders /\ send1) \/ send2 ELSE send1

RouteCrypto(u, text, rdM, env, send1, send2) ==
    LET cd   == GetCoinData(coins_list, text, env.rdOk, env.fetch, env.wrOk,
                            env.quote)
        sent == CryptoDelivered(cd, send1, send2)
    IN  /\ inflight[u] < MaxInflight
        /\ coins_list' = cd.cache
        /\ inflight' = IF sent THEN [inflight EXCEPT ![u] = @ + 1] ELSE inflight
        /\ shot' = IF sent THEN shot ELSE [shot EXCEPT ![u] = "crypto_aborted"]
        /\ last' = [NoOp EXCEPT !.op = "message", !.user = u, !.text = text,
                                !.mode_read = "crypto", !.route = "crypto",
                                !.rdM = rdM,
                                !.reply = CryptoReply(cd, send1),
                                !.delivered = sent, !.lookup = TRUE,
                                !.kind = cd.kind, !.coin_id = cd.id,
                                !.coins_before = coins_list, !.cenv = env,
                                !.prior = shot[u],
                                !.mode_before = mode[u],
                                !.pref_before = menu_pref[u]]
        /\ UNCHANGED <<mode, menu_pref, ai_cache>>

\* what one call of get_ai_response did, for the record
AiRecord(op, u, query, env, res) ==
    [NoOp EXCEPT !.op = op, !.user = u, !.text = query,
                 !.reply = "answer", !.body = res.result,
                 !.read = IF ~env.rdOk THEN "error"
                          ELSE IF res.calls = <<>> THEN "hit"
                          ELSE "miss",
                 !.prim = IF Len(res.calls) >= 1 THEN env.prim ELSE "uncalled",
                 !.sec = IF Len(res.calls) >= 2 THEN env.sec ELSE "uncalled",
                 !.write = IF res.calls # <<"deepseek">> THEN "none"
                           ELSE IF env.wrOk THEN "ok"
                           ELSE "error",
                 !.calls = res.calls,
                 !.cache_before = ai_cache, !.env = env]

RouteAi(u, text, rdM, env, send1) ==
    LET res == GetAiResponse(ai_cache, u, text, env.rdOk, env.prim, env.wrOk,
                             env.sec)
    IN  /\ ai_cache' = res.cache
        /\ shot' = [shot EXCEPT ![u] = "ai"]
        /\ last' = [AiRecord("message", u, text, env, res) EXCEPT
                        !.mode_read = "ai", !.route = "ai", !.rdM = rdM,
                        !.delivered = send1, !.prior = shot[u],
                        !.mode_before = mode[u],
                        !.pref_before = menu_pref[u]]
        /\ UNCHANGED <<mode, menu_pref, coins_list, inflight>>

RouteIdle(u, text, rdM, current_mode, send1) ==
    /\ shot' = [shot EXCEPT ![u] = "idle"]
    /\ last' = [NoOp EXCEPT !.op = "message", !.user = u, !.text = text,
                            !.mode_read = current_mode, !.route = "idle",
                            !.rdM = rdM,
                            !.reply = "prompt", !.delivered = send1,
                            !.prior = shot[u],
                            !.mode_before = mode[u],
                            !.pref_before = menu_pref[u]]
    /\ UNCHANGED <<mode, menu_pref, ai_cache, coins_list, inflight>>

HandleMessage(u, raw, rdM) ==
    LET text         == Strip(raw)
        current_mode == ReadMode(u, rdM)
    IN  /\ last.op = "none"
        /\ IF current_mode = "crypto"
           THEN \E env \in DialogCoinEnvs, send1 \in BOOLEAN, send2 \in BOOLEAN :
                    RouteCrypto(u, text, rdM, env, send1, send2)
           ELSE IF current_mode = "ai"
           THEN \E env \in AiEnvs, send1 \in BOOLEAN :
                    RouteAi(u, text, rdM, env, send1)
           ELSE \E send1 \in BOOLEAN : RouteIdle(u, text, rdM, current_mode, send1)

\* the delete left out, as in the ai branch
MutClearMode(u, delOk) == mode

\* lines 323-326
ClearMode(u, delOk) == IF delOk THEN [mode EXCEPT ![u] = Absent] ELSE mode

\* lines 323-328
HandleMessageClear(u, delOk) ==
    /\ last.op = "none"
    /\ inflight[u] > 0
    /\ inflight' = [inflight EXCEPT ![u] = @ - 1]
    /\ mode' = ClearMode(u, delOk)
    /\ shot' = [shot EXCEPT ![u] = IF delOk THEN "crypto_cleared"
                                   ELSE "crypto_kept"]
    /\ last' = [NoOp EXCEPT !.op = "resumed", !.user = u, !.route = "crypto",
                            !.prior = shot[u],
                            !.mode_before = mode[u],
                            !.pref_before = menu_pref[u]]
    /\ UNCHANGED <<menu_pref, ai_cache, coins_list>>

(***************************************************************************)
(* get_ai_response called on its own, as handle_message calls it.          *)
(***************************************************************************)
GetAiResponseCall(u, query, env) ==
    LET res == GetAiResponse(ai_cache, u, query, env.rdOk, env.prim, env.wrOk,
                             env.sec)
    IN  /\ last.op = "none"
        /\ ai_cache' = res.cache
        /\ last' = AiRecord("ai_call", u, query, env, res)
        /\ UNCHANGED <<mode, menu_pref, coins_list, inflight, shot>>

(***************************************************************************)
(* get_coin_data called on its own, as handle_message and button_handler   *)
(* call it.                                                                *)
(***************************************************************************)
GetCoinDataCall(coin_symbol, env) ==
    LET cd == GetCoinData(coins_list, coin_symbol, env.rdOk, env.fetch,
                          env.wrOk, env.quote)
    IN  /\ last.op = "none"
        /\ coins_list' = cd.cache
        /\ last' = [NoOp EXCEPT !.op = "coin_call", !.text = coin_symbol,
                                !.lookup = TRUE, !.kind = cd.kind,
                                !.coin_id = cd.id,
                                !.coins_before = coins_list, !.cenv = env]
        /\ UNCHANGED <<mode, menu_pref, ai_cache, inflight, shot>>

(***************************************************************************)
(* The environment: a key with a TTL expires; the observer takes note of   *)
(* what the last handler did.                                              *)
(***************************************************************************)
AiCacheExpire(key) ==
    /\ last.op = "none"
    /\ key \in DOMAIN ai_cache
    /\ ai_cache[key].ttl > 0
    /\ ai_cache' = MapDel(ai_cache, key)
    /\ UNCHANGED <<mode, menu_pref, coins_list, inflight, shot, last>>

CoinsListExpire ==
    /\ last.op = "none"
    /\ coins_list.present /\ coins_list.ttl > 0
    /\ coins_list' = CoinsAbsent
    /\ UNCHANGED <<mode, menu_pref, ai_cache, inflight, shot, last>>

Observe ==
    /\ last.op # "none"
    /\ last' = NoOp
    /\ UNCHANGED <<mode, menu_pref, ai_cache, coins_list, inflight, shot>>

(***************************************************************************)
(* main(): the instance lock and polling.  Each process runs main() once.  *)
(***************************************************************************)
LockAbsent == [present |-> FALSE, value |-> Nil, ttl |-> 0, owner |-> Nil]

\* r.setnx(key, "1") by process p: the entry after, and the answer
RedisSetnx(entry, p) ==
    IF entry.present
    THEN [entry |-> entry, answer |-> FALSE]
    ELSE [entry |-> [present |-> TRUE, value |-> "1", ttl |-> 0, owner |-> p],
          answer |-> TRUE]

\* r.expire(key, ttl)
RedisExpire(entry, ttl) ==
    IF entry.present THEN [entry EXCEPT !.ttl = ttl] ELSE entry

\* r.delete(key)
RedisDelete(entry) == LockAbsent

\* the refused lock logged without exit(1)
MutAfterSetnx(answer) ==
    CASE answer = "true" -> "expire"
      [] OTHER -> "polling"

\* where main() goes after line 411: exit(1) on a refused lock, on to line 414
\* on a granted one, on to create_application when the store raised
AfterSetnx(answer) ==
    CASE answer = "true" -> "expire"
      [] answer = "false" -> "exited"
      [] OTHER -> "polling"

\* lines 410-416, the setnx
Setnx(p, ok) ==
    LET got    == RedisSetnx(lock, p)
        answer == IF ~ok THEN "error" ELSE IF got.answer THEN "true" ELSE "false"
    IN  /\ pc[p] = "start"
        /\ lock' = IF ok THEN got.entry ELSE lock
        /\ acq' = [acq EXCEPT ![p] = answer]
        /\ pc' = [pc EXCEPT ![p] = AfterSetnx(answer)]
        /\ polled' = IF AfterSetnx(answer) = "polling" THEN polled \cup {p}
                     ELSE polled
        /\ lock_log' = IF answer = "true" THEN "acquired" ELSE lock_log
        /\ last_acq' = IF ok
                       THEN [proc |-> p, answer |-> answer, prev |-> lock_log]
                       ELSE last_acq

\* lines 414-429: the expire, then create_application and run_polling
Expire(p, ok) ==
    /\ pc[p] = "expire"
    /\ lock' = IF ok THEN RedisExpire(lock, LOCK_TTL) ELSE lock
    /\ pc' = [pc EXCEPT ![p] = "polling"]
    /\ polled' = polled \cup {p}
    /\ UNCHANGED <<acq, lock_log, last_acq>>

\* lines 430-434: run_polling ends: Conflict, another exception, or shutdown
StopPolling(p) ==
    /\ pc[p] = "polling"
    /\ pc' = [pc EXCEPT ![p] = "finally"]
    /\ UNCHANGED <<lock, acq, polled, lock_log, last_acq>>

\* lines 435-439
Release(p, ok) ==
    /\ pc[p] = "finally"
    /\ lock' = IF ok THEN RedisDelete(lock) ELSE lock
    /\ lock_log' = IF ok THEN "released" ELSE lock_log
    /\ pc' = [pc EXCEPT ![p] = "exited"]
    /\ UNCHANGED <<acq, polled, last_acq>>

\* the process is killed (no finally runs)
Crash(p) ==
    /\ pc[p] \in {"expire", "polling", "finally"}
    /\ pc' = [pc EXCEPT ![p] = "dead"]
    /\ UNCHANGED <<lock, acq, polled, lock_log, last_acq>>

\* the lock key's TTL runs out
LockExpire ==
    /\ lock.present /\ lock.ttl > 0
    /\ lock' = LockAbsent
    /\ lock_log' = "expired"
    /\ UNCHANGED <<pc, acq, polled, last_acq>>

(***************************************************************************)
(* Specifications.                                                         *)
(***************************************************************************)
Init ==
    /\ mode = [u \in Users |-> Absent]
    /\ menu_pref = [u \in Users |-> Absent]
    /\ ai_cache = NoKeys
    /\ coins_list = CoinsAbsent
    /\ inflight = [u \in Users |-> 0]
    /\ shot = [u \in Users |-> "none"]
    /\ last = NoOp
    /\ lock = LockAbsent
    /\ pc = [p \in Procs |-> "start"]
    /\ acq = [p \in Procs |-> "none"]
    /\ polled = {}
    /\ lock_log = "none"
    /\ last_acq = [proc |-> Nil, answer |-> "none", prev |-> "none"]

\* the handlers of one polling process and the store's expiry
Next ==
    \/ \E u \in DialogUsers, ok \in BOOLEAN : Start(u, ok) /\ UNCHANGED lockVars
    \/ \E u \in DialogUsers, ok \in BOOLEAN :
            HandleCrypto(u, ok) /\ UNCHANGED lockVars
    \/ \E u \in DialogUsers, ok \in BOOLEAN : HandleAi(u, ok) /\ UNCHANGED lockVars
    \/ \E u \in DialogUsers, data \in {"main_menu", "popular_coins", "settings"} :
            ShowScreen(u, data) /\ UNCHANGED lockVars
    \/ \E u \in DialogUsers, style \in Styles, ok \in BOOLEAN :
            MenuStyle(u, style, ok) /\ UNCHANGED lockVars
    \/ \E u \in DialogUsers, symbol \in PopularSymbols, env \in DialogCoinEnvs :
            CoinButton(u, symbol, env) /\ UNCHANGED lockVars
    \/ \E u \in DialogUsers, raw \in Texts, rdM \in BOOLEAN :
            HandleMessage(u, raw, rdM) /\ UNCHANGED lockVars
    \/ \E u \in DialogUsers, ok \in BOOLEAN :
            HandleMessageClear(u, ok) /\ UNCHANGED lockVars
    \/ \E key \in DOMAIN ai_cache : AiCacheExpire(key) /\ UNCHANGED lockVars
    \/ CoinsListExpire /\ UNCHANGED lockVars
    \/ Observe /\ UNCHANGED lockVars

Spec == Init /\ [][Next]_vars

\* get_ai_response for every user, query and environment
NextAi ==
    \/ \E u \in Users, raw \in Texts, env \in AiEnvs :
            GetAiResponseCall(u, Strip(raw), env) /\ UNCHANGED lockVars
    \/ \E key \in DOMAIN ai_cache : AiCacheExpire(key) /\ UNCHANGED lockVars
    \/ Observe /\ UNCHANGED lockVars

SpecAi == Init /\ [][NextAi]_vars

\* get_coin_data for every input, listing and environment
NextCoin ==
    \/ \E coin_symbol \in CoinSymbols, env \in CoinEnvs :
            GetCoinDataCall(coin_symbol, env) /\ UNCHANGED lockVars
    \/ CoinsListExpire /\ UNCHANGED lockVars
    \/ Observe /\ UNCHANGED lockVars

SpecCoin == Init /\ [][NextCoin]_vars

\* the bot processes started against one store
NextLock ==
    \/ \E p \in Procs, ok \in BOOLEAN : Setnx(p, ok) /\ UNCHANGED dialogVars
    \/ \E p \in Procs, ok \in BOOLEAN : Expire(p, ok) /\ UNCHANGED dialogVars
    \/ \E p \in Procs : StopPolling(p) /\ UNCHANGED dialogVars
    \/ \E p \in Procs, ok \in BOOLEAN : Release(p, ok) /\ UNCHANGED dialogVars
    \/ \E p \in Procs : Crash(p) /\ UNCHANGED dialogVars
    \/ LockExpire /\ UNCHANGED dialogVars

SpecLock == Init /\ [][NextLock]_vars

(***************************************************************************)
(* The claims.                                                             *)
(***************************************************************************)
\* the cache key of the call that last records
LastKey == AiKey(last.user, last.text)
\* a provider outcome that is no answer: an exception or an empty content
Failed(outcome) == outcome \in {"raise", ""}
IsAiCall == last.op = "ai_call"
\* the call read the cache and found an entry / read it and found none
LastHit == IsAiCall /\ last.env.rdOk /\ LastKey \in DOMAIN last.cache_before
LastMiss == IsAiCall /\ last.env.rdOk /\ LastKey \notin DOMAIN last.cache_before

\* C1, as stated: once a text message has been handled to its end in crypto
\* mode, the user's mode is absent, whatever the lookup gave.
C1_CryptoSingleShot ==
    \A u \in Users :
        shot[u] \in {"crypto_cleared", "crypto_kept"} => ~mode[u].present

\* C1, amended: once a text message has been handled in crypto mode and its
\* delete of the mode key succeeded, the mode is absent until the next menu
\* selection, and the next text message of the user is answered with the
\* option prompt and looks no coin up.
C1_CryptoSingleShotWhenDeleted ==
    /\ \A u \in Users : shot[u] = "crypto_cleared" => ~mode[u].present
    /\ (last.op = "message" /\ last.prior = "crypto_cleared")
          => /\ last.route = "idle"
             /\ last.reply = "prompt"
             /\ ~last.lookup
             /\ last.calls = <<>>

C1_Witness ==
    /\ last.op = "message"
    /\ last.prior = "crypto_cleared"
    /\ last.route = "idle"
    /\ last.delivered

\* C2: once a text message has been handled in ai mode, the user's mode is
\* absent, and the next text message with no menu selection in between is
\* routed as idle and reaches no provider.
C2_AiSingleShot ==
    /\ \A u \in Users : shot[u] = "ai" => ~mode[u].present
    /\ (last.op = "message" /\ last.prior = "ai")
          => (last.route = "idle" /\ last.calls = <<>>)

\* C3: on a cache miss with the primary provider failing and the secondary
\* answering, the secondary's answer is returned and is stored in the cache
\* under (user, query[:50]).
C3_FallbackAnswerCached ==
    (LastMiss /\ Failed(last.env.prim) /\ ~Failed(last.env.sec))
        => /\ last.body = last.env.sec
           /\ LastKey \in DOMAIN ai_cache
           /\ ai_cache[LastKey].value = last.env.sec

\* C4, as stated: while an answer is stored under (user, query[:50]), every
\* call for that key returns it and calls no provider.
C4_CacheHitShortCircuit ==
    (IsAiCall /\ LastKey \in DOMAIN last.cache_before)
        => /\ last.body = last.cache_before[LastKey].value
           /\ last.calls = <<>>

\* C4, amended: while an answer is stored under (user, query[:50]), every
\* call for that key whose cache read succeeds returns it, calls no provider
\* and leaves the cache as it was.
C4_CacheHitShortCircuitWhenRead ==
    LastHit
        => /\ last.body = last.cache_before[LastKey].value
           /\ last.calls = <<>>
           /\ ai_cache = last.cache_before

C4_Witness ==
    /\ LastHit
    /\ last.read = "hit"
    /\ last.body = "d1"
    /\ ~Failed(last.env.prim)

\* C5: when no cached answer is used and both providers fail (an exception
\* or an empty answer), the fixed fallback is returned and the cache is left
\* as it was.
C5_AllFailFallback ==
    (IsAiCall /\ ~LastHit /\ Failed(last.env.prim) /\ Failed(last.env.sec))
        => /\ last.body = FALLBACK
           /\ ai_cache = last.cache_before

C5_Witness ==
    /\ IsAiCall /\ ~LastHit
    /\ last.env.prim = "" /\ last.env.sec = "raise"
    /\ last.body = FALLBACK
    /\ last.calls = <<"deepseek", "chatgpt">>

\* C6, as stated: the primary is called before the secondary, and a primary
\* answer is stored with the 1-hour TTL and returned, the secondary uncalled.
C6_PrimaryFirstAndCached ==
    /\ IsAiCall => last.calls \in {<<>>, <<"deepseek">>, <<"deepseek", "chatgpt">>}
    /\ (IsAiCall /\ ~LastHit /\ ~Failed(last.env.prim))
          => /\ last.body = last.env.prim
             /\ last.calls = <<"deepseek">>
             /\ MapGet(ai_cache, LastKey) = RedisSetex(3600, last.env.prim)

\* C6, amended: the primary is called before the secondary, and a primary
\* answer is returned with the secondary uncalled; it is stored with the
\* 1-hour TTL when the cache write succeeds, and the cache is left as it was
\* when the write raises.
C6_PrimaryFirstAndCachedWhenWritten ==
    /\ IsAiCall => last.calls \in {<<>>, <<"deepseek">>, <<"deepseek", "chatgpt">>}
    /\ (IsAiCall /\ ~LastHit /\ ~Failed(last.env.prim))
          => /\ last.body = last.env.prim
             /\ last.calls = <<"deepseek">>
             /\ last.env.wrOk
                    => MapGet(ai_cache, LastKey) = RedisSetex(3600, last.env.prim)
             /\ ~last.env.wrOk => ai_cache = last.cache_before

C6_Witness ==
    /\ IsAiCall /\ ~LastHit
    /\ last.env.prim = "d1" /\ last.env.wrOk
    /\ last.calls = <<"deepseek">>
    /\ MapGet(ai_cache, LastKey).ttl = 3600

\* C7: whatever the cache read, the cache write and the two providers do,
\* the call returns a non-empty text that is the cached answer, a provider's
\* answer or the fixed fallback; no exception is its outcome.
C7_AlwaysReturnsText ==
    IsAiCall
        => /\ last.body \notin {"raise", Nil, ""}
           /\ \/ LastHit /\ last.body = last.cache_before[LastKey].value
              \/ ~Failed(last.env.prim) /\ last.body = last.env.prim
              \/ ~Failed(last.env.sec) /\ last.body = last.env.sec
              \/ last.body = FALLBACK

C7_Witness ==
    /\ IsAiCall
    /\ ~last.env.rdOk /\ ~last.env.wrOk
    /\ last.env.prim = "raise" /\ last.env.sec = "raise"
    /\ last.body = FALLBACK

\* C8: at most one process is polling.  The processes counted are those whose
\* setnx was granted, so that a violation does not rest on the store failing
\* during the setnx (C9).
C8_MutualExclusion ==
    Cardinality({p \in Procs : pc[p] = "polling" /\ acq[p] = "true"}) <= 1

\* C9: a process polls only if its own setnx was granted.
C9_PollsOnlyIfAcquired ==
    \A p \in Procs : (pc[p] = "polling" \/ p \in polled) => acq[p] = "true"

\* C10: a setnx answered by the store is granted when the key was last
\* released, expired or never set, and refused when the last change of the
\* key was a granted setnx; the refused process has exited without polling.
C10_SecondAcquireRefused ==
    /\ last_acq.prev \in {"none", "released", "expired"}
          => last_acq.answer \in {"none", "true"}
    /\ last_acq.prev = "acquired"
          => /\ last_acq.answer = "false"
             /\ pc[last_acq.proc] = "exited"
             /\ last_acq.proc \notin polled

C10_Witness ==
    /\ last_acq.prev = "acquired"
    /\ last_acq.answer = "false"
    /\ pc[last_acq.proc] = "exited"
    /\ lock.present /\ lock.owner # last_acq.proc

\* C11: the lock self-heals: whenever the key is set and the process that
\* set it has died without releasing it, the key carries a TTL, so that it
\* becomes absent by expiry; the key is not left set without an expiry.
C11_DeadOwnerLockExpires ==
    (lock.present /\ pc[lock.owner] = "dead") => lock.ttl > 0

\* the last handler looked a coin up for a text message in crypto mode
IsCryptoMessage == last.op = "message" /\ last.route = "crypto"
\* the listing that lookup scanned: the cached one when the read found it,
\* else the fetched one
LastListing ==
    IF last.cenv.rdOk /\ last.coins_before.present
    THEN JsonLoads(last.coins_before.value)
    ELSE IF last.cenv.fetch.kind = "ok" THEN last.cenv.fetch.body
    ELSE <<>>
\* the input names a coin of that listing, by symbol or id, ignoring case
LastResolves ==
    \E i \in 1..Len(LastListing) :
        /\ LastListing[i].id # <<>>
        /\ \/ Lower(LastListing[i].symbol) = Lower(last.text)
           \/ Lower(LastListing[i].id) = Lower(last.text)

\* C12: when the input resolves to a coin and the quote request returns
\* HTTP 200 with a required field missing or malformed, the reply is the
\* format error and not "Coin not found".
C12_UnparsableQuoteIsFormatError ==
    (IsCryptoMessage /\ LastResolves
        /\ last.cenv.quote \in {"missing", "null_price"})
        => (last.reply = "format_error" /\ last.reply # "not_found")

\* C13: when the input resolves to a coin and the quote request returns HTTP
\* 429, get_coin_data returns the rate-limited outcome and the reply of the
\* router in crypto mode is the retry-later message, not "Coin not found";
\* the reply is delivered when Telegram accepts it.
C13_RateLimitReported ==
    (IsCryptoMessage /\ LastResolves /\ last.cenv.quote = "429")
        => /\ last.kind = "rate_limit"
           /\ last.reply = "rate_limit"
           /\ last.reply # "not_found"

C13_Witness ==
    /\ IsCryptoMessage /\ LastResolves
    /\ last.cenv.quote = "429"
    /\ last.reply = "rate_limit"
    /\ last.delivered

IsCoinCall == last.op = "coin_call"
\* the lookup had a listing to scan
LastListed == LastListing # <<>>
\* the positions of the listing whose symbol, or whose symbol or id, equals
\* the input ignoring case
SymbolCarriers ==
    {i \in 1..Len(LastListing) : Lower(LastListing[i].symbol) = Lower(last.text)}
Matchers ==
    SymbolCarriers
        \cup {i \in 1..Len(LastListing) :
                  Lower(LastListing[i].id) = Lower(last.text)}
First(S) == CHOOSE i \in S : \A j \in S : i <= j

\* C14, as stated: the resolved id is the id of the first entry whose symbol
\* or id equals the input ignoring case, nothing is resolved exactly when no
\* entry matches, and every symbol present in the listing resolves to the id
\* of the first entry carrying that symbol.
C14_FirstMatchResolution ==
    (IsCoinCall /\ LastListed)
        => /\ (last.coin_id = <<>>) <=> (Matchers = {})
           /\ Matchers # {} => last.coin_id = LastListing[First(Matchers)].id
           /\ SymbolCarriers # {}
                  => last.coin_id = LastListing[First(SymbolCarriers)].id

\* C14, amended: the resolved id is the id of the first entry whose symbol
\* or id equals the input ignoring case; nothing is resolved exactly when no
\* entry matches or the first match has an empty id; a symbol present in the
\* listing resolves to the id of the first entry carrying it when no earlier
\* entry matches by its id.
C14_FirstMatchResolutionById ==
    (IsCoinCall /\ LastListed)
        => /\ (last.coin_id = <<>>)
                  <=> (Matchers = {} \/ LastListing[First(Matchers)].id = <<>>)
           /\ Matchers # {} => last.coin_id = LastListing[First(Matchers)].id
           /\ (SymbolCarriers # {} /\ First(SymbolCarriers) = First(Matchers))
                  => last.coin_id = LastListing[First(SymbolCarriers)].id

C14_Witness ==
    /\ IsCoinCall /\ LastListed
    /\ Cardinality(Matchers) = 2
    /\ last.text # LastListing[First(Matchers)].symbol
    /\ last.coin_id = LastListing[First(Matchers)].id
    /\ last.coin_id # <<>>

\* the last handler was one of a user's dialog: /start, a button or a text
IsDialogOp == last.op \in {"start", "select", "button", "message", "resumed"}
IsMenuStyleSelection == last.op = "button" /\ last.route = "menu"

\* C15: a user's menu preference is changed only by a menu-style selection:
\* every other handler of that user (/start once the preference is stored,
\* menu navigation, mode selection, coin buttons, text messages) leaves the
\* key as it was.
C15_MenuPrefFrame ==
    (/\ IsDialogOp
     /\ ~IsMenuStyleSelection
     /\ (last.op = "start" => last.pref_before.present))
        => menu_pref[last.user] = last.pref_before

\* C16: when the store raises while handle_message reads the user's mode,
\* the mode is taken for absent, the message is answered with the option
\* prompt, no coin is looked up, no AI provider is called and the stored
\* mode is left as it was.
C16_ModeReadFailsOpen ==
    (last.op = "message" /\ ~last.rdM)
        => /\ last.mode_read = Nil
           /\ last.route = "idle"
           /\ last.reply = "prompt"
           /\ ~last.lookup
           /\ last.calls = <<>>
           /\ mode[last.user] = last.mode_before

C16_Witness ==
    /\ last.op = "message" /\ ~last.rdM
    /\ last.mode_before = RedisSet("crypto")
    /\ last.route = "idle"
    /\ last.delivered

\* C17: /start and every button other than the two mode selections (main
\* menu, popular coins, a coin button, settings, a menu style) leave the
\* user's mode key as it was, and a text message whose mode read succeeds is
\* routed by the mode stored when it arrives: crypto to the coin lookup, ai
\* to the provider chain, no mode to the option prompt.
C17_ModePersists ==
    /\ last.op \in {"start", "button"} => mode[last.user] = last.mode_before
    /\ (last.op = "message" /\ last.rdM)
          => last.route = CASE last.mode_before = RedisSet("crypto") -> "crypto"
                            [] last.mode_before = RedisSet("ai") -> "ai"
                            [] OTHER -> "idle"

C17_Witness ==
    /\ last.op = "start"
    /\ last.mode_before = RedisSet("crypto")
    /\ mode[last.user] = RedisSet("crypto")
    /\ menu_pref[last.user] # last.pref_before

\* C18: a mode written after a handler read the mode is not removed by that
\* handler's delete.  Only a handler that read "crypto" is suspended before
\* the delete, so when it resumes and finds "ai" stored, that mode was
\* selected after its read, and it is still stored when the handler ends.
C18_SelectionNotLost ==
    (last.op = "resumed" /\ last.mode_before = RedisSet("ai"))
        => mode[last.user] = RedisSet("ai")

\* C19: the delete a process runs on shutdown removes the lock key only if
\* that process is its owner: a process whose setnx was granted and whose
\* key has since been set by another process leaves that key as it is.
C19_ReleaseOnlyOwnLock ==
    [][\A p \in Procs :
            (/\ pc[p] = "finally" /\ pc'[p] = "exited"
             /\ acq[p] = "true"
             /\ lock.present /\ lock.owner # p)
                => lock' = lock]_vars

\* the key of the last call, spelled out: its user and the first 50
\* characters of its query
LastOwnKey == <<last.user, Take(last.text, AI_KEY_PREFIX)>>
\* the queries that agree with the last call's on their first 50 characters
SamePrefix ==
    {Strip(raw) : raw \in
        {t \in Texts : Take(Strip(t), AI_KEY_PREFIX) = Take(last.text, AI_KEY_PREFIX)}}

\* C20: the text a call returns is the answer a provider gave in this call,
\* the answer stored under the caller's own user id and the first 50
\* characters of the query, or the fallback; a call changes no entry other
\* than the one under that key, so that no entry of another user is written
\* or returned; and the entry a call writes is the entry of every query of
\* that user with the same first 50 characters, which a later call with such
\* a query returns when its read succeeds.
C20_CachePerUserAndPrefix ==
    IsAiCall
        => /\ \/ /\ last.calls = <<"deepseek">>
                 /\ ~Failed(last.env.prim) /\ last.body = last.env.prim
              \/ /\ last.calls = <<"deepseek", "chatgpt">>
                 /\ ~Failed(last.env.sec) /\ last.body = last.env.sec
              \/ /\ last.calls = <<>>
                 /\ LastOwnKey \in DOMAIN last.cache_before
                 /\ last.body = last.cache_before[LastOwnKey].value
              \/ last.body = FALLBACK
           /\ \A k \in DOMAIN ai_cache \cup DOMAIN last.cache_before :
                  /\ k[1] \in Users
                  /\ k # LastOwnKey
                        => MapGet(ai_cache, k) = MapGet(last.cache_before, k)
           /\ \A q \in SamePrefix :
                  /\ MapGet(ai_cache, AiKey(last.user, q))
                        = MapGet(ai_cache, LastOwnKey)
                  /\ (last.env.rdOk
                        /\ AiKey(last.user, q) \in DOMAIN last.cache_before)
                        => /\ last.calls = <<>>
                           /\ last.body
                                = last.cache_before[AiKey(last.user, q)].value

C20_Witness ==
    /\ IsAiCall
    /\ last.user = "u2" /\ last.text = LongB
    /\ last.calls = <<>>
    /\ Failed(last.env.prim) /\ Failed(last.env.sec)
    /\ last.body = "d1"
    /\ DOMAIN last.cache_before
          = {<<"u1", Take(LongA, AI_KEY_PREFIX)>>, <<"u2", Take(LongA, AI_KEY_PREFIX)>>}

====
